---- MODULE Spec2Model ----
(***************************************************************************)
(* Elder complaint voice bot: the conversation pipeline of backend/app.py, *)
(* its sqlite store (backend/database.py) and the rule-based classifier    *)
(* (backend/services/nlp_service.py).                                      *)
(*                                                                         *)
(* Text is a sequence of characters.  A Hangul syllable is written as its  *)
(* romanisation ("sseu" is U+C4F0), so that substring tests work on the    *)
(* characters the keywords are made of.  A string literal of the program   *)
(* that is only ever copied (an enum tag, a fixed message) is one token.   *)
(***************************************************************************)
EXTENDS Integers, Sequences, FiniteSets, TLC

VARIABLES
    sessions,    \* table conversation_session: session_uuid -> row
    complaints,  \* table complaint, in rowid order
    logs,        \* table log_entry, in rowid order
    pc,          \* per worker: the handler step it is about to run
    req,         \* per worker: the request it is serving
    reply,       \* the response the last step sent, with its request, if any
    nlp_text,    \* classifier harness: the input text
    nlp_result,  \* classifier harness: analyze_text's result
    nlp_pc       \* classifier harness: "input" or "done"

vars == <<sessions, complaints, logs, pc, req, reply,
          nlp_text, nlp_result, nlp_pc>>

dbVars == <<sessions, complaints, logs>>
nlpVars == <<nlp_text, nlp_result, nlp_pc>>

-----------------------------------------------------------------------------
(* Bounds of the model *)

MaxSessions == 2
MaxComplaints == 2
MaxLogs == 2
MaxTime == 1
MaxPieces == 2
MaxPad == 2

-----------------------------------------------------------------------------
(* Strings *)

\* k in s
Contains(k, s) ==
    \E i \in 1..(Len(s) - Len(k) + 1) : SubSeq(s, i, i + Len(k) - 1) = k

\* an Optional value: None, or the value
None == <<>>
Some(x) == <<x>>

IsSpace(c) == c = " "

\* str.lower on one character: Hangul has no case, Latin "A" has
LowerChar(c) == IF c = "A" THEN "a" ELSE c

Lower(s) == [i \in 1..Len(s) |-> LowerChar(s[i])]

RECURSIVE LStrip(_)
LStrip(s) == IF s # <<>> /\ IsSpace(Head(s)) THEN LStrip(Tail(s)) ELSE s

RECURSIVE RStrip(_)
RStrip(s) ==
    IF s # <<>> /\ IsSpace(s[Len(s)]) THEN RStrip(SubSeq(s, 1, Len(s) - 1)) ELSE s

Strip(s) == RStrip(LStrip(s))

\* s[:n]
Take(s, n) == SubSeq(s, 1, IF Len(s) < n THEN Len(s) ELSE n)

-----------------------------------------------------------------------------
(* nlp_service.py *)

EMERGENCY_KEYWORDS ==
    << <<"sseu", "reo">>, <<"hwa", "jae">>, <<"bul", "i">>, <<"pok", "bal">>,
       <<"wi", "heom">>, <<"wi", "dok">>, <<"sa", "go">>, <<"pi", "ga">>,
       <<"pok", "haeng">> >>

FACILITY_KEYWORDS ==
    << <<"ga", "ro", "deung">>, <<"do", "ro">>, <<"bo", "do">>, <<"na", "mu">>,
       <<"sseu", "reo", "jyeo">>, <<"jeon", "seon">>, <<"sseu", "re", "gi">>,
       <<"si", "seol">>, <<"geon", "mul">> >>

PENSION_KEYWORDS ==
    << <<"yeon", "geum">>, <<"guk", "min", "yeon", "geum">>,
       <<"gi", "cho", "yeon", "geum">>, <<"su", "geup">>, <<"bok", "ji">> >>

MENTAL_KEYWORDS ==
    << <<"u", "ul">>, <<"bul", "an">>, <<"sang", "dam">>, <<"sim", "ri">>,
       <<"goe", "ro">>, <<"him", "deul">>, <<"juk", "go", " ", "sip">> >>

\* any(k in text for k in keywords)
AnyIn(keywords, text) == \E j \in 1..Len(keywords) : Contains(keywords[j], text)

SummaryLimit == 50
SummaryCut == 120
Ellipsis == <<"...">>

SummarizeLengthBeforeStrip(raw_text) ==
    LET stripped == Strip(raw_text) IN
    IF Len(raw_text) <= SummaryLimit
    THEN stripped
    ELSE RStrip(Take(stripped, SummaryCut)) \o Ellipsis

summarize(raw_text) ==
    LET stripped == Strip(raw_text) IN
    IF Len(stripped) <= SummaryLimit
    THEN stripped
    ELSE RStrip(Take(stripped, SummaryCut)) \o Ellipsis

DetectCategoryFacilityFirst(raw_text) ==
    IF AnyIn(FACILITY_KEYWORDS, raw_text) THEN "FACILITY"
    ELSE IF AnyIn(PENSION_KEYWORDS, raw_text) THEN "PENSION"
    ELSE IF AnyIn(MENTAL_KEYWORDS, raw_text) THEN "MENTAL_HEALTH"
    ELSE "OTHER"

\* lowered is computed and not used: the keywords are matched on raw_text
detect_category(raw_text) ==
    IF AnyIn(MENTAL_KEYWORDS, raw_text) THEN "MENTAL_HEALTH"
    ELSE IF AnyIn(PENSION_KEYWORDS, raw_text) THEN "PENSION"
    ELSE IF AnyIn(FACILITY_KEYWORDS, raw_text) THEN "FACILITY"
    ELSE "OTHER"

DetectSeverityDistressFirst(raw_text, category) ==
    LET normalized == Lower(raw_text) IN
    IF category = "MENTAL_HEALTH" /\ Contains(<<"him", "deul">>, normalized)
    THEN "NORMAL"
    ELSE IF AnyIn(EMERGENCY_KEYWORDS, normalized) THEN "EMERGENCY"
    ELSE IF Len(raw_text) > 0 THEN "NORMAL" ELSE "LOW"

detect_severity(raw_text, category) ==
    LET normalized == Lower(raw_text) IN
    IF AnyIn(EMERGENCY_KEYWORDS, normalized) THEN "EMERGENCY"
    ELSE IF category = "MENTAL_HEALTH" /\ Contains(<<"him", "deul">>, normalized)
    THEN "NORMAL"
    ELSE IF Len(raw_text) > 0 THEN "NORMAL" ELSE "LOW"

DecideHandlingMentalAlwaysListening(category, severity) ==
    IF category = "FACILITY" THEN
        IF severity = "EMERGENCY"
        THEN <<"ON_SITE_VISIT", <<"desc:facility-emergency">>>>
        ELSE <<"ON_SITE_VISIT", <<"desc:facility">>>>
    ELSE IF category = "PENSION" THEN <<"INFO_GUIDE", <<"desc:pension">>>>
    ELSE IF category = "MENTAL_HEALTH"
    THEN <<"LISTENING_SUPPORT", <<"desc:mental">>>>
    ELSE <<"INFO_GUIDE", <<"desc:other">>>>

\* (handling_type, handling_desc); each description literal is one token
decide_handling(category, severity) ==
    IF category = "FACILITY" THEN
        IF severity = "EMERGENCY"
        THEN <<"ON_SITE_VISIT", <<"desc:facility-emergency">>>>
        ELSE <<"ON_SITE_VISIT", <<"desc:facility">>>>
    ELSE IF category = "PENSION" THEN <<"INFO_GUIDE", <<"desc:pension">>>>
    ELSE IF category = "MENTAL_HEALTH" THEN
        IF severity = "EMERGENCY"
        THEN <<"COUNSELOR_CONNECT", <<"desc:mental-emergency">>>>
        ELSE <<"LISTENING_SUPPORT", <<"desc:mental">>>>
    ELSE <<"INFO_GUIDE", <<"desc:other">>>>

AnalysisResult(summary_text, category, severity, handling_type, handling_desc) ==
    [summary_text |-> summary_text, category |-> category, severity |-> severity,
     handling_type |-> handling_type, handling_desc |-> handling_desc]

analyze_text(raw_text) ==
    LET category == detect_category(raw_text)
        severity == detect_severity(raw_text, category)
        handling == decide_handling(category, severity)
    IN  AnalysisResult(summarize(raw_text), category, severity,
                       handling[1], handling[2])

FormatUserMessageWithoutCategory(result) ==
    <<"msg:summary-open">> \o result.summary_text \o <<"msg:summary-close">>
    \o <<"msg:severity">> \o <<result.severity>>
    \o <<"msg:handling-open">> \o <<result.handling_type>>
    \o <<"msg:handling-close">>

\* the f-string: fixed parts are one token each, the fields are copied in
format_user_message(result) ==
    <<"msg:summary-open">> \o result.summary_text \o <<"msg:summary-close">>
    \o <<"msg:category">> \o <<result.category>>
    \o <<"msg:severity">> \o <<result.severity>>
    \o <<"msg:handling-open">> \o <<result.handling_type>>
    \o <<"msg:handling-close">>

-----------------------------------------------------------------------------
(* whisper_service.py *)

\* hashlib.sha256(audio_bytes).hexdigest()[:8], for the uploads the model
\* draws: the bytes b"" and b"a"
Sha256Prefix(audio_bytes) ==
    IF audio_bytes = <<>> THEN "e3b0c442" ELSE "ca978112"

Placeholder(audio_bytes, filename) ==
    <<"stt:open", filename, "stt:sep", Sha256Prefix(audio_bytes), "stt:close">>

TranscribeAudioWithoutFallback(audio_bytes, filename, api_key, OpenAI, provider) ==
    LET fallback == Placeholder(audio_bytes, filename)
        truthy_key == api_key # <<>> /\ api_key[1] # <<>>
    IN  IF OpenAI /\ truthy_key
        THEN IF provider.raises THEN fallback
             ELSE Strip(IF provider.text = <<>> THEN <<>> ELSE provider.text[1])
        ELSE fallback

\* OpenAI: whether the import succeeded; api_key: <<>> is None;
\* provider: what client.audio.transcriptions.create does when it is called,
\* [raises |-> TRUE] or [raises |-> FALSE, text |-> <<>> (no text attribute) or <<t>>]
transcribe_audio(audio_bytes, filename, api_key, OpenAI, provider) ==
    LET fallback == Placeholder(audio_bytes, filename)
        truthy_key == api_key # <<>> /\ api_key[1] # <<>>
    IN  IF OpenAI /\ truthy_key
        THEN IF provider.raises THEN fallback
             ELSE LET text == Strip(IF provider.text = <<>> THEN <<>>
                                    ELSE provider.text[1])
                  IN  IF text # <<>> THEN text ELSE fallback
        ELSE fallback

-----------------------------------------------------------------------------
(* database.py *)

\* a NULL column
NULL == -1

\* datetime.utcnow().isoformat(): the wall clock, which a transaction reads
\* once; it is not monotonic, so a later transaction may read an earlier time
Times == 0..MaxTime

\* json.dumps(payload, ensure_ascii=False): the dict becomes one text value
json_dumps(payload) == [json |-> payload]

create_session(tbl, session_uuid, debug_mode, now) ==
    [u \in DOMAIN tbl \cup {session_uuid} |->
        IF u = session_uuid
        THEN [started_at |-> now, ended_at |-> NULL,
              debug_mode |-> IF debug_mode THEN 1 ELSE 0,
              status |-> "IN_PROGRESS"]
        ELSE tbl[u]]

UpdateSessionStatusKeepEndedAt(tbl, session_uuid, status, now) ==
    [u \in DOMAIN tbl |->
        IF u = session_uuid THEN [tbl[u] EXCEPT !.status = status] ELSE tbl[u]]

\* UPDATE ... WHERE session_uuid = ?: no row matches an unknown identifier
update_session_status(tbl, session_uuid, status, now) ==
    [u \in DOMAIN tbl |->
        IF u = session_uuid
        THEN [tbl[u] EXCEPT !.status = status, !.ended_at = now]
        ELSE tbl[u]]

\* the row INSERT INTO complaint adds; the foreign key on session_uuid is
\* declared and not enforced (the connection never sets PRAGMA foreign_keys)
ComplaintRow(tbl, data, now) ==
    [id |-> Len(tbl) + 1,
     session_uuid |-> data.session_uuid,
     raw_text |-> data.raw_text,
     summary_text |-> data.summary_text,
     category |-> data.category,
     severity |-> data.severity,
     handling_type |-> data.handling_type,
     handling_desc |-> data.handling_desc,
     is_confirmed |-> IF data.is_confirmed THEN 1 ELSE 0,
     created_at |-> now]

insert_complaint(tbl, data, now) == Append(tbl, ComplaintRow(tbl, data, now))

\* cur.lastrowid of the insert above
lastrowid(tbl) == Len(tbl)

InsertLogOverwriteLast(tbl, session_uuid, step, level, message, payload, now) ==
    LET row == [id |-> Len(tbl) + 1, session_uuid |-> session_uuid,
                step |-> step, level |-> level, message |-> message,
                payload |-> IF payload # None THEN Some(json_dumps(payload[1]))
                            ELSE None,
                created_at |-> now]
    IN  IF tbl = <<>> THEN <<row>>
        ELSE [tbl EXCEPT ![Len(tbl)] = [row EXCEPT !.id = Len(tbl)]]

insert_log(tbl, session_uuid, step, level, message, payload, now) ==
    Append(tbl, [id |-> Len(tbl) + 1, session_uuid |-> session_uuid,
                 step |-> step, level |-> level, message |-> message,
                 payload |-> IF payload # None THEN Some(json_dumps(payload[1]))
                             ELSE None,
                 created_at |-> now])

\* ORDER BY created_at ASC: rows with equal created_at keep rowid order
RECURSIVE OrderByCreatedAt(_)
OrderByCreatedAt(rows) ==
    IF rows = <<>> THEN <<>>
    ELSE LET m == CHOOSE i \in 1..Len(rows) :
                    \A j \in 1..Len(rows) :
                        \/ rows[i].created_at < rows[j].created_at
                        \/ rows[i].created_at = rows[j].created_at /\ i <= j
         IN  <<rows[m]>> \o OrderByCreatedAt(
                 SubSeq(rows, 1, m - 1) \o SubSeq(rows, m + 1, Len(rows)))


\* SELECT step, level, message, payload, created_at
LogColumns(row) ==
    [step |-> row.step, level |-> row.level, message |-> row.message,
     payload |-> row.payload, created_at |-> row.created_at]

FetchLogsUnordered(tbl, session_uuid) ==
    LET filtered == session_uuid # <<>> /\ session_uuid[1] # <<>>
        Keep(row) == ~filtered \/ row.session_uuid = session_uuid[1]
        rows == SelectSeq(tbl, Keep)
    IN  [i \in 1..Len(rows) |-> LogColumns(rows[i])]

\* session_uuid: <<>> is None, <<u>> is the string u; "if session_uuid:" is
\* false for None and for the empty string
fetch_logs(tbl, session_uuid) ==
    LET filtered == session_uuid # <<>> /\ session_uuid[1] # <<>>
        Keep(row) == ~filtered \/ row.session_uuid = session_uuid[1]
        rows == OrderByCreatedAt(SelectSeq(tbl, Keep))
    IN  [i \in 1..Len(rows) |-> LogColumns(rows[i])]

-----------------------------------------------------------------------------
(* app.py *)

\* requests in flight at once
Workers == {1, 2}

\* str(uuid.uuid4()): a fresh identifier; <<n>> names the n-th one handed out
uuid4 == <<Cardinality(DOMAIN sessions) + 1>>

\* a well-formed identifier that uuid4 never hands out
UnknownUuid == <<0>>

\* the {session_uuid} path segment of a request: a client may send any
\* non-empty string, one it was given or not
PathUuids == DOMAIN sessions \cup {UnknownUuid}

\* an HTTP response: the status code and the ApiResponse envelope
ok(data) ==
    [status_code |-> 200,
     body |-> Some([success |-> TRUE, data |-> Some(data), error |-> None])]

fail(code, message) ==
    [status_code |-> 200,
     body |-> Some([success |-> FALSE, data |-> None,
                    error |-> Some([code |-> code, message |-> message])])]

\* raise HTTPException(status_code=...), or an exception the handler lets through
HTTPException(status_code) == [status_code |-> status_code, body |-> None]

Idle == [op |-> "idle"]

\* log inserts the requests in flight have still to make
PendingLogs == Cardinality({w \in Workers : pc[w] # "idle"})

Respond(w, response) ==
    /\ reply' = [op |-> req[w].op, request |-> req[w], response |-> response]
    /\ pc' = [pc EXCEPT ![w] = "idle"]
    /\ req' = [req EXCEPT ![w] = Idle]

NoReply == [op |-> "none"]

RespondNow(request, response) ==
    /\ reply' = [op |-> request.op, request |-> request, response |-> response]
    /\ UNCHANGED <<pc, req>>

\* start_conversation, line 53-54
StartCreateSession(w, debug_mode, now) ==
    /\ pc[w] = "idle"
    /\ Cardinality(DOMAIN sessions) < MaxSessions
    /\ Len(logs) + PendingLogs < MaxLogs
    /\ LET session_uuid == uuid4 IN
        /\ sessions' = create_session(sessions, session_uuid, debug_mode, now)
        /\ req' = [req EXCEPT ![w] = [op |-> "start", session_uuid |-> session_uuid,
                                      debug_mode |-> debug_mode]]
    /\ pc' = [pc EXCEPT ![w] = "start_log"]
    /\ reply' = NoReply
    /\ UNCHANGED <<complaints, logs, nlpVars>>

\* start_conversation, line 55-62
StartInsertLog(w, now) ==
    /\ pc[w] = "start_log"
    /\ logs' = insert_log(logs, req[w].session_uuid, "SESSION", "INFO",
                          "msg:session-created",
                          Some([debug_mode |-> req[w].debug_mode]), now)
    /\ Respond(w, ok([session_uuid |-> req[w].session_uuid,
                      status |-> "IN_PROGRESS"]))
    /\ UNCHANGED <<sessions, complaints, nlpVars>>

\* the two utterances of the specification's scenarios
FacilityUtterance ==
    <<"ga", "ro", "deung", "i", " ", "sseu", "reo", "jyeo", " ",
      "iss", "eo", "seo", " ", "wi", "heom", "hae", "yo">>

MentalUtterance ==
    <<"yo", "jeum", " ", "neo", "mu", " ", "him", "deul", "go", " ",
      "u", "ul", "hae", "yo">>

\* what a client posts to start
DebugModes == {FALSE}

\* what a client posts to analyze
RawTexts == {<<>>, FacilityUtterance}

\* the upload and the transcription environment of an stt request
SttUploads ==
    {[audio_bytes |-> <<"a">>, filename |-> "a.wav", api_key |-> Some(<<"key">>),
      OpenAI |-> TRUE, provider |-> [raises |-> FALSE, text |-> Some(MentalUtterance)]]}

\* what a client posts to finalize: the analysis it was shown and confirmed,
\* or fields of its own with is_confirmed false and no handling_desc
FinalizeRequests ==
    {[raw_text |-> FacilityUtterance,
      summary_text |-> analyze_text(FacilityUtterance).summary_text,
      category |-> "FACILITY", severity |-> "EMERGENCY",
      handling_type |-> "ON_SITE_VISIT",
      handling_desc |-> Some(analyze_text(FacilityUtterance).handling_desc),
      is_confirmed |-> TRUE],
     [raw_text |-> <<"yo">>, summary_text |-> <<>>,
      category |-> "OTHER", severity |-> "LOW",
      handling_type |-> "INFO_GUIDE",
      handling_desc |-> None,
      is_confirmed |-> FALSE]}

\* stt_conversation, line 67-70: reading the upload fails
SttReadError(w, session_uuid) ==
    /\ pc[w] = "idle"
    /\ RespondNow([op |-> "stt", session_uuid |-> session_uuid],
                  HTTPException(400))
    /\ UNCHANGED <<dbVars, nlpVars>>

\* stt_conversation, line 72-80
SttConversation(w, session_uuid, upload, now) ==
    /\ pc[w] = "idle"
    /\ Len(logs) + PendingLogs < MaxLogs
    /\ LET raw_text == transcribe_audio(upload.audio_bytes, upload.filename,
                                        upload.api_key, upload.OpenAI,
                                        upload.provider)
       IN  /\ logs' = insert_log(logs, session_uuid, "STT", "INFO", "msg:stt-done",
                                 Some([raw_text |-> raw_text,
                                       size |-> Len(upload.audio_bytes)]), now)
           /\ RespondNow([op |-> "stt", session_uuid |-> session_uuid,
                          upload |-> upload],
                         ok([raw_text |-> raw_text]))
    /\ UNCHANGED <<sessions, complaints, nlpVars>>

AnalyzeInvalidTextUnguarded(w, session_uuid, raw_text) ==
    /\ pc[w] = "idle"
    /\ raw_text = <<>>
    /\ Len(logs) + PendingLogs < MaxLogs
    /\ LET result == analyze_text(raw_text)
       IN  /\ \E now \in Times :
                  logs' = insert_log(logs, session_uuid, "ANALYZE", "INFO",
                                     "msg:analyzed", Some(result), now)
           /\ RespondNow([op |-> "analyze", session_uuid |-> session_uuid,
                          raw_text |-> raw_text],
                         ok(result))
    /\ UNCHANGED <<sessions, complaints, nlpVars>>

\* analyze_conversation, line 85-86
AnalyzeInvalidText(w, session_uuid, raw_text) ==
    /\ pc[w] = "idle"
    /\ raw_text = <<>>
    /\ RespondNow([op |-> "analyze", session_uuid |-> session_uuid,
                   raw_text |-> raw_text],
                  fail("INVALID_TEXT", "msg:no-text"))
    /\ UNCHANGED <<dbVars, nlpVars>>

\* analyze_conversation, line 88-96
AnalyzeConversation(w, session_uuid, raw_text, now) ==
    /\ pc[w] = "idle"
    /\ raw_text # <<>>
    /\ Len(logs) + PendingLogs < MaxLogs
    /\ LET result == analyze_text(raw_text)
       IN  /\ logs' = insert_log(logs, session_uuid, "ANALYZE", "INFO",
                                 "msg:analyzed", Some(result), now)
           /\ RespondNow([op |-> "analyze", session_uuid |-> session_uuid,
                          raw_text |-> raw_text],
                         ok(result))
    /\ UNCHANGED <<sessions, complaints, nlpVars>>

ConfirmConversationCompletes(w, session_uuid, is_confirmed, now) ==
    /\ pc[w] = "idle"
    /\ Len(logs) + PendingLogs < MaxLogs
    /\ logs' = insert_log(logs, session_uuid, "CONFIRM", "INFO", "msg:confirm",
                          Some([is_confirmed |-> is_confirmed]), now)
    /\ sessions' = IF is_confirmed
                   THEN update_session_status(sessions, session_uuid,
                                              "COMPLETED", now)
                   ELSE sessions
    /\ RespondNow([op |-> "confirm", session_uuid |-> session_uuid,
                   is_confirmed |-> is_confirmed],
                  ok([next_step |-> IF is_confirmed THEN "SAVE_AND_NOTIFY"
                                    ELSE "RETRY"]))
    /\ UNCHANGED <<complaints, nlpVars>>

\* confirm_conversation
ConfirmConversation(w, session_uuid, is_confirmed, now) ==
    /\ pc[w] = "idle"
    /\ Len(logs) + PendingLogs < MaxLogs
    /\ logs' = insert_log(logs, session_uuid, "CONFIRM", "INFO", "msg:confirm",
                          Some([is_confirmed |-> is_confirmed]), now)
    /\ RespondNow([op |-> "confirm", session_uuid |-> session_uuid,
                   is_confirmed |-> is_confirmed],
                  ok([next_step |-> IF is_confirmed THEN "SAVE_AND_NOTIFY"
                                    ELSE "RETRY"]))
    /\ UNCHANGED <<sessions, complaints, nlpVars>>

FinalizeCompleteBeforeInsert(w, session_uuid, payload, now) ==
    /\ pc[w] = "idle"
    /\ Len(complaints) < MaxComplaints
    /\ Len(logs) + PendingLogs < MaxLogs
    /\ sessions' = update_session_status(sessions, session_uuid, "COMPLETED", now)
    /\ req' = [req EXCEPT ![w] = [op |-> "finalize", session_uuid |-> session_uuid,
                                  payload |-> payload,
                                  complaint_id |-> lastrowid(complaints)]]
    /\ pc' = [pc EXCEPT ![w] = "finalize_update"]
    /\ reply' = NoReply
    /\ UNCHANGED <<complaints, logs, nlpVars>>

\* finalize_conversation, line 113
FinalizeInsertComplaint(w, session_uuid, payload, now) ==
    /\ pc[w] = "idle"
    /\ Len(complaints) < MaxComplaints
    /\ Len(logs) + PendingLogs < MaxLogs
    /\ complaints' = insert_complaint(
           complaints,
           [session_uuid |-> session_uuid, raw_text |-> payload.raw_text,
            summary_text |-> payload.summary_text, category |-> payload.category,
            severity |-> payload.severity,
            handling_type |-> payload.handling_type,
            handling_desc |-> payload.handling_desc,
            is_confirmed |-> payload.is_confirmed],
           now)
    /\ req' = [req EXCEPT ![w] = [op |-> "finalize", session_uuid |-> session_uuid,
                                  payload |-> payload,
                                  complaint_id |-> lastrowid(complaints')]]
    /\ pc' = [pc EXCEPT ![w] = "finalize_update"]
    /\ reply' = NoReply
    /\ UNCHANGED <<sessions, logs, nlpVars>>

\* finalize_conversation, line 114
FinalizeUpdateStatus(w, now) ==
    /\ pc[w] = "finalize_update"
    /\ sessions' = update_session_status(sessions, req[w].session_uuid,
                                         "COMPLETED", now)
    /\ pc' = [pc EXCEPT ![w] = "finalize_log"]
    /\ reply' = NoReply
    /\ UNCHANGED <<complaints, logs, req, nlpVars>>

\* finalize_conversation, line 115-131
FinalizeInsertLog(w, now) ==
    /\ pc[w] = "finalize_log"
    /\ logs' = insert_log(logs, req[w].session_uuid, "DB_SAVE", "INFO",
                          "msg:complaint-saved",
                          Some([complaint_id |-> req[w].complaint_id]), now)
    /\ LET payload == req[w].payload
           user_message == format_user_message(
               AnalysisResult(payload.summary_text, payload.category,
                              payload.severity, payload.handling_type,
                              IF payload.handling_desc # None
                                  /\ payload.handling_desc[1] # <<>>
                              THEN payload.handling_desc[1] ELSE <<>>))
       IN  Respond(w, ok([user_message |-> user_message, redirect |-> "MAIN"]))
    /\ UNCHANGED <<sessions, complaints, nlpVars>>

\* a statement of the handler raises (the store is locked or unavailable):
\* the transactions already committed stay, the rest of the handler is not run
HandlerRaises(w) ==
    /\ pc[w] # "idle"
    /\ Respond(w, HTTPException(500))
    /\ UNCHANGED <<dbVars, nlpVars>>

\* list_logs
ListLogs(w, session_uuid) ==
    /\ pc[w] = "idle"
    /\ RespondNow([op |-> "logs", session_uuid |-> session_uuid],
                  ok(fetch_logs(logs, session_uuid)))
    /\ UNCHANGED <<dbVars, nlpVars>>

\* the session_uuid query parameter of list logs: absent, empty, or a string
LogFilters == {None, Some(<<>>)} \cup {Some(u) : u \in PathUuids}

Init ==
    /\ sessions = <<>>
    /\ complaints = <<>>
    /\ logs = <<>>
    /\ pc = [w \in Workers |-> "idle"]
    /\ req = [w \in Workers |-> Idle]
    /\ reply = NoReply
    /\ nlp_text = <<>>
    /\ nlp_result = None
    /\ nlp_pc = "off"

\* the conversation lifecycle: sessions are started and finalized by concurrent
\* requests, and a handler may die between its transactions.  The timestamps
\* play no part in it: every transaction of a run reads the same clock value.
LifecycleTimes == {MaxTime}

Next ==
    \E w \in Workers :
        \/ \E d \in DebugModes, now \in LifecycleTimes :
               StartCreateSession(w, d, now)
        \/ \E now \in LifecycleTimes : StartInsertLog(w, now)
        \/ \E u \in PathUuids, p \in FinalizeRequests, now \in LifecycleTimes :
               FinalizeInsertComplaint(w, u, p, now)
        \/ \E now \in LifecycleTimes : FinalizeUpdateStatus(w, now)
        \/ \E now \in LifecycleTimes : FinalizeInsertLog(w, now)
        \/ HandlerRaises(w)

Spec == Init /\ [][Next]_vars

\* the audit trail: sessions are started, the pipeline stages are logged by
\* concurrent requests and the log is listed
NextAudit ==
    \E w \in Workers :
        \/ \E d \in DebugModes, now \in Times : StartCreateSession(w, d, now)
        \/ \E now \in Times : StartInsertLog(w, now)
        \/ \E u \in PathUuids : SttReadError(w, u)
        \/ \E u \in PathUuids, upload \in SttUploads, now \in Times :
               SttConversation(w, u, upload, now)
        \/ \E u \in PathUuids, t \in RawTexts : AnalyzeInvalidText(w, u, t)
        \/ \E u \in PathUuids, t \in RawTexts, now \in Times :
               AnalyzeConversation(w, u, t, now)
        \/ \E u \in PathUuids, c \in BOOLEAN, now \in Times :
               ConfirmConversation(w, u, c, now)
        \/ HandlerRaises(w)
        \/ \E f \in LogFilters : ListLogs(w, f)

SpecAudit == Init /\ [][NextAudit]_vars

\* the whole pipeline: sessions are started, transcribed, analyzed, confirmed
\* and finalized by concurrent requests, in whatever order the clients send
\* them, and a handler may die between its transactions
NextPipeline ==
    \E w \in Workers :
        \/ \E d \in DebugModes, now \in LifecycleTimes :
               StartCreateSession(w, d, now)
        \/ \E now \in LifecycleTimes : StartInsertLog(w, now)
        \/ \E u \in PathUuids : SttReadError(w, u)
        \/ \E u \in PathUuids, upload \in SttUploads, now \in LifecycleTimes :
               SttConversation(w, u, upload, now)
        \/ \E u \in PathUuids, t \in RawTexts : AnalyzeInvalidText(w, u, t)
        \/ \E u \in PathUuids, t \in RawTexts, now \in LifecycleTimes :
               AnalyzeConversation(w, u, t, now)
        \/ \E u \in PathUuids, c \in BOOLEAN, now \in LifecycleTimes :
               ConfirmConversation(w, u, c, now)
        \/ \E u \in PathUuids, p \in FinalizeRequests, now \in LifecycleTimes :
               FinalizeInsertComplaint(w, u, p, now)
        \/ \E now \in LifecycleTimes : FinalizeUpdateStatus(w, now)
        \/ \E now \in LifecycleTimes : FinalizeInsertLog(w, now)
        \/ HandlerRaises(w)

SpecPipeline == Init /\ [][NextPipeline]_vars

\* the uploads of the transcription endpoint: the bytes b"" and b"a" under
\* two file names
AudioBytes == {<<>>, <<"a">>}
Filenames == {"a.wav", "b.wav"}

\* os.getenv("OPENAI_API_KEY"): unset, set to the empty string, or set
ApiKeys == {None, Some(<<>>), Some(<<"key">>)}

\* what the call of the provider does: it raises, or it returns a transcript
\* without a text attribute, with an empty text, with a blank one, or with a
\* text, which may have blanks around it
ProviderOutcomes ==
    {[raises |-> TRUE, text |-> None]}
    \cup {[raises |-> FALSE, text |-> t] :
              t \in {None, Some(<<>>), Some(<<" ">>), Some(MentalUtterance),
                     Some(<<" ">> \o FacilityUtterance \o <<" ">>)}}

SttEnvironments ==
    [audio_bytes : AudioBytes, filename : Filenames, api_key : ApiKeys,
     OpenAI : BOOLEAN, provider : ProviderOutcomes]

\* the transcription endpoint on its own, in every environment; no session
\* needs to exist for it
NextStt ==
    \E w \in Workers :
        \/ \E u \in PathUuids : SttReadError(w, u)
        \/ \E u \in PathUuids, upload \in SttEnvironments,
               now \in LifecycleTimes :
               SttConversation(w, u, upload, now)

SpecStt == Init /\ [][NextStt]_vars

-----------------------------------------------------------------------------
(* Properties of the conversation lifecycle *)

ComplaintsOf(session_uuid) ==
    {i \in 1..Len(complaints) : complaints[i].session_uuid = session_uuid}

LogsOf(session_uuid) ==
    {i \in 1..Len(logs) : logs[i].session_uuid = session_uuid}

\* the step just taken answered a request of this operation with an envelope
Answered(op) ==
    /\ reply.op = op
    /\ reply.response.status_code = 200
    /\ reply.response.body # None

\* C1: the complaint store holds at most one Complaint of each session.
C1_AtMostOneComplaintPerSession ==
    \A u \in DOMAIN sessions : Cardinality(ComplaintsOf(u)) <= 1

\* C2: a session's ended_at is non-null exactly when its status is COMPLETED,
\* and it becomes non-null only in the step in which update_session_status
\* runs for that session.
C2_EndedAtIffCompletedState ==
    \A u \in DOMAIN sessions :
        /\ sessions[u].status \in {"IN_PROGRESS", "COMPLETED"}
        /\ sessions[u].ended_at # NULL <=> sessions[u].status = "COMPLETED"

C2_EndedAtSetByComplete ==
    \A u \in DOMAIN sessions' :
        /\ u \notin DOMAIN sessions =>
               /\ sessions'[u].ended_at = NULL
               /\ sessions'[u].status = "IN_PROGRESS"
        /\ u \in DOMAIN sessions /\ sessions'[u] # sessions[u] =>
               /\ sessions'[u].ended_at # NULL
               /\ \E w \in Workers :
                      /\ pc[w] = "finalize_update"
                      /\ pc'[w] = "finalize_log"
                      /\ req[w].session_uuid = u

C2_EndedAtIffCompleted ==
    /\ []C2_EndedAtIffCompletedState
    /\ [][C2_EndedAtSetByComplete]_vars

\* a completed session beside one that is still in progress
C2_Witness ==
    \E u, v \in DOMAIN sessions :
        /\ sessions[u].status = "COMPLETED" /\ sessions[u].ended_at # NULL
        /\ sessions[v].status = "IN_PROGRESS" /\ sessions[v].ended_at = NULL

\* C3: finalize on a session_uuid no session was created for answers
\* success=false with code NOT_FOUND, and nothing is persisted for that
\* identifier: no complaint and no log entry.
C3_UnknownSessionNotFound ==
    /\ \A i \in 1..Len(complaints) : complaints[i].session_uuid \in DOMAIN sessions
    /\ \A i \in 1..Len(logs) : logs[i].session_uuid \in DOMAIN sessions
    /\ Answered("finalize") /\ reply.request.session_uuid \notin DOMAIN sessions
           => /\ ~reply.response.body[1].success
              /\ reply.response.body[1].error # None
              /\ reply.response.body[1].error[1].code = "NOT_FOUND"

\* C7: when finalize has answered for an existing session with
\* is_confirmed=true, a Complaint with the session_uuid and the submitted
\* fields is stored, the session is COMPLETED with ended_at set, a DB_SAVE
\* entry of the session is in the log, and the answer is success=true with a
\* non-empty user_message that contains the summary_text and the category.
C7_FinalizeConfirmed ==
    Answered("finalize")
        /\ reply.request.session_uuid \in DOMAIN sessions
        /\ reply.request.payload.is_confirmed
    =>  LET u == reply.request.session_uuid
            p == reply.request.payload
            body == reply.response.body[1]
        IN  /\ \E i \in ComplaintsOf(u) :
                   /\ complaints[i].id = reply.request.complaint_id
                   /\ complaints[i].raw_text = p.raw_text
                   /\ complaints[i].summary_text = p.summary_text
                   /\ complaints[i].category = p.category
                   /\ complaints[i].severity = p.severity
                   /\ complaints[i].handling_type = p.handling_type
                   /\ complaints[i].handling_desc = p.handling_desc
                   /\ complaints[i].is_confirmed = 1
            /\ sessions[u].status = "COMPLETED"
            /\ sessions[u].ended_at # NULL
            /\ \E i \in LogsOf(u) :
                   /\ logs[i].step = "DB_SAVE"
                   /\ logs[i].payload =
                          Some(json_dumps([complaint_id |-> reply.request.complaint_id]))
            /\ body.success
            /\ body.error = None
            /\ body.data # None
            /\ body.data[1].user_message # <<>>
            /\ Contains(p.summary_text, body.data[1].user_message)
            /\ Contains(<<p.category>>, body.data[1].user_message)

\* the first finalize of a session, confirmed, with a summary to quote
C7_Witness ==
    /\ Answered("finalize")
    /\ reply.request.session_uuid \in DOMAIN sessions
    /\ reply.request.payload.is_confirmed
    /\ reply.request.payload.summary_text # <<>>
    /\ Cardinality(ComplaintsOf(reply.request.session_uuid)) = 1
    /\ reply.response.body[1].success

-----------------------------------------------------------------------------
(* Properties of the audit log *)

IsPrefix(s, t) == Len(s) <= Len(t) /\ SubSeq(t, 1, Len(s)) = s

\* the step sent a success envelope for a request of a logging operation
LoggedAnswer(r) ==
    /\ r.op \in {"start", "stt", "analyze", "confirm", "finalize"}
    /\ r.response.status_code = 200
    /\ r.response.body[1].success

StepTag(op) ==
    CASE op = "start" -> "SESSION"
      [] op = "stt" -> "STT"
      [] op = "analyze" -> "ANALYZE"
      [] op = "confirm" -> "CONFIRM"
      [] op = "finalize" -> "DB_SAVE"

\* C4: every step leaves the stored log entries as they are and removes none,
\* and a step that completes an insert_log call adds exactly one entry, of the
\* request's session_uuid and stage.
C4_AppendOnlyStep ==
    /\ IsPrefix(logs, logs')
    /\ Len(logs') <= Len(logs) + 1
    /\ LoggedAnswer(reply') =>
           /\ Len(logs') = Len(logs) + 1
           /\ logs'[Len(logs')].session_uuid = reply'.request.session_uuid
           /\ logs'[Len(logs')].step = StepTag(reply'.op)
    /\ Len(logs') = Len(logs) + 1 => LoggedAnswer(reply')

C4_AppendOnly == [][C4_AppendOnlyStep]_vars

\* a request appended an entry between the two transactions of the start
\* request of its session, which then appended the SESSION entry
C4_Witness ==
    /\ Len(logs) = 2
    /\ logs[1].step = "STT" /\ logs[1].session_uuid = <<1>>
    /\ logs[2].step = "SESSION" /\ logs[2].session_uuid = <<1>>
    /\ LoggedAnswer(reply) /\ reply.op = "start"

\* how often a row occurs in a sequence of rows
Occurrences(row, rows) == Cardinality({i \in 1..Len(rows) : rows[i] = row})

SameRows(rows1, rows2) ==
    /\ Len(rows1) = Len(rows2)
    /\ \A i \in 1..Len(rows1) :
           Occurrences(rows1[i], rows1) = Occurrences(rows1[i], rows2)

NonDecreasing(rows) ==
    \A i, j \in 1..Len(rows) : i < j => rows[i].created_at <= rows[j].created_at

\* the stored entries of a session, or of all sessions, as list logs shows them
Shown(keep_all, session_uuid) ==
    LET Keep(row) == keep_all \/ row.session_uuid = session_uuid
        rows == SelectSeq(logs, Keep)
    IN  [i \in 1..Len(rows) |->
            [step |-> rows[i].step, level |-> rows[i].level,
             message |-> rows[i].message, payload |-> rows[i].payload,
             created_at |-> rows[i].created_at]]

\* C5 as stated: list logs is in non-decreasing created_at order; with a
\* session_uuid filter given it holds exactly the entries of that session,
\* with the filter omitted the entries of all sessions.
C5_ListLogsAsStated ==
    Answered("logs") =>
        LET filter == reply.request.session_uuid
            shown == reply.response.body[1].data[1]
        IN  /\ NonDecreasing(shown)
            /\ filter = None => SameRows(shown, Shown(TRUE, <<>>))
            /\ filter # None => SameRows(shown, Shown(FALSE, filter[1]))

\* C5: list logs is in non-decreasing created_at order; with a non-empty
\* session_uuid filter it holds exactly the entries of that session; with the
\* filter omitted, or given as the empty string, the entries of all sessions.
C5_ListLogs ==
    Answered("logs") =>
        LET filter == reply.request.session_uuid
            shown == reply.response.body[1].data[1]
        IN  /\ NonDecreasing(shown)
            /\ filter = None \/ filter = Some(<<>>)
                   => SameRows(shown, Shown(TRUE, <<>>))
            /\ filter # None /\ filter # Some(<<>>)
                   => SameRows(shown, Shown(FALSE, filter[1]))

\* a filtered listing that leaves out the entry of another session
C5_Witness ==
    /\ Answered("logs")
    /\ reply.request.session_uuid = Some(<<1>>)
    /\ Len(reply.response.body[1].data[1]) = 1
    /\ Len(logs) = 2

\* C6: analyze with an empty raw_text answers success=false, data=null,
\* error.code=INVALID_TEXT, and the step changes neither the log nor the
\* sessions nor the complaints.
C6_EmptyTextStep ==
    reply'.op = "analyze" /\ reply'.request.raw_text = <<>> =>
        /\ reply'.response.status_code = 200
        /\ reply'.response.body # None
        /\ ~reply'.response.body[1].success
        /\ reply'.response.body[1].data = None
        /\ reply'.response.body[1].error # None
        /\ reply'.response.body[1].error[1].code = "INVALID_TEXT"
        /\ UNCHANGED <<sessions, complaints, logs>>

C6_EmptyTextRejected == [][C6_EmptyTextStep]_vars

\* an empty text rejected when the log already has an entry
C6_Witness ==
    /\ reply.op = "analyze"
    /\ reply.request.raw_text = <<>>
    /\ logs # <<>>

-----------------------------------------------------------------------------
(* The classifier on its own: analyze_text applied to one input text *)

Keywords(list) == {list[j] : j \in 1..Len(list)}

\* what the input texts are made of: every keyword of the four lists, and
\* characters that belong to none (a Hangul syllable, a blank, a capital)
Pieces ==
    Keywords(EMERGENCY_KEYWORDS) \cup Keywords(FACILITY_KEYWORDS)
    \cup Keywords(PENSION_KEYWORDS) \cup Keywords(MENTAL_KEYWORDS)
    \cup {<<"yo">>, <<" ">>, <<"A">>}

RECURSIVE Concat(_)
Concat(pieces) ==
    IF pieces = <<>> THEN <<>> ELSE Head(pieces) \o Concat(Tail(pieces))

\* texts in which the keywords of a lower-priority list outnumber those of a
\* higher-priority one
OutnumberedUtterances ==
    {<<"ga", "ro", "deung", " ", "do", "ro", " ", "u", "ul">>,
     <<"do", "ro", " ", "na", "mu", " ", "yeon", "geum">>,
     <<"su", "geup", " ", "bok", "ji", " ", "do", "ro", " ", "sang", "dam">>}

PiecesUpTo(n) == {Concat(ps) : ps \in UNION {[1..m -> Pieces] : m \in 0..n}}

\* the texts of at most MaxPieces pieces, the two scenario utterances and the
\* outnumbered ones
NlpInputs ==
    PiecesUpTo(MaxPieces) \cup {FacilityUtterance, MentalUtterance}
    \cup OutnumberedUtterances

InitNlp ==
    /\ sessions = <<>>
    /\ complaints = <<>>
    /\ logs = <<>>
    /\ pc = [w \in Workers |-> "idle"]
    /\ req = [w \in Workers |-> Idle]
    /\ reply = NoReply
    /\ nlp_text \in NlpInputs
    /\ nlp_result = None
    /\ nlp_pc = "input"

NlpAnalyze ==
    /\ nlp_pc = "input"
    /\ nlp_result' = Some(analyze_text(nlp_text))
    /\ nlp_pc' = "done"
    /\ UNCHANGED <<dbVars, pc, req, reply, nlp_text>>

NextNlp == NlpAnalyze

SpecNlp == InitNlp /\ [][NextNlp]_vars

-----------------------------------------------------------------------------
(* Properties of the classifier *)

\* the text has a keyword of the list as a substring
Mentions(list, text) ==
    \E k \in Keywords(list) :
        \E i \in 1..Len(text) :
            /\ i + Len(k) - 1 <= Len(text)
            /\ \A d \in 1..Len(k) : text[i + d - 1] = k[d]

Analyzed == nlp_pc = "done"

\* C8: a text with an emergency keyword gets severity EMERGENCY whatever its
\* category; a text with none gets NORMAL when it is non-empty and LOW when it
\* is empty.
C8_EmergencySeverity ==
    Analyzed =>
        LET severity == nlp_result[1].severity IN
        /\ Mentions(EMERGENCY_KEYWORDS, nlp_text) => severity = "EMERGENCY"
        /\ ~Mentions(EMERGENCY_KEYWORDS, nlp_text) /\ nlp_text # <<>>
               => severity = "NORMAL"
        /\ nlp_text = <<>> => severity = "LOW"

\* an emergency keyword in a text that is classified MENTAL_HEALTH through the
\* distress keyword
C8_Witness ==
    /\ Analyzed
    /\ Mentions(EMERGENCY_KEYWORDS, nlp_text)
    /\ Contains(<<"him", "deul">>, nlp_text)
    /\ nlp_result[1].category = "MENTAL_HEALTH"
    /\ nlp_result[1].severity = "EMERGENCY"

\* the table of the handling decision, as the specification gives it
TableHandlingType(category, severity) ==
    CASE category = "FACILITY" -> "ON_SITE_VISIT"
      [] category = "PENSION" -> "INFO_GUIDE"
      [] category = "MENTAL_HEALTH" ->
            IF severity = "EMERGENCY" THEN "COUNSELOR_CONNECT"
            ELSE "LISTENING_SUPPORT"
      [] OTHER -> "INFO_GUIDE"

\* the analyses the result of the input text is compared with: of the single
\* pieces, of the scenario utterances, and of each emergency keyword followed
\* by a keyword of each category
Comparisons ==
    {analyze_text(t) :
        t \in PiecesUpTo(1) \cup {FacilityUtterance, MentalUtterance}
              \cup {e \o k : e \in Keywords(EMERGENCY_KEYWORDS),
                              k \in {MENTAL_KEYWORDS[1], PENSION_KEYWORDS[1],
                                     FACILITY_KEYWORDS[2]}}}

\* C9: handling_type follows the table on (category, severity), two texts with
\* the same category and severity get the same handling_type and handling_desc,
\* and handling_desc is never empty.
C9_HandlingByTable ==
    Analyzed =>
        LET r == nlp_result[1] IN
        /\ r.handling_type = TableHandlingType(r.category, r.severity)
        /\ r.handling_desc # <<>>
        /\ \A q \in Comparisons :
               q.category = r.category /\ q.severity = r.severity
                   => /\ q.handling_type = r.handling_type
                      /\ q.handling_desc = r.handling_desc

\* a mental-health text in an emergency is connected to a counselor
C9_Witness ==
    /\ Analyzed
    /\ nlp_result[1].category = "MENTAL_HEALTH"
    /\ nlp_result[1].severity = "EMERGENCY"
    /\ nlp_result[1].handling_type = "COUNSELOR_CONNECT"
    /\ \E q \in Comparisons :
           /\ q.category = "MENTAL_HEALTH" /\ q.severity = "EMERGENCY"
           /\ q.summary_text # nlp_result[1].summary_text

\* C10: the category is decided by priority: mental health, then pension, then
\* facility, else OTHER, whatever else the text contains.
C10_CategoryPriority ==
    Analyzed =>
        LET category == nlp_result[1].category
            mental == Mentions(MENTAL_KEYWORDS, nlp_text)
            pension == Mentions(PENSION_KEYWORDS, nlp_text)
            facility == Mentions(FACILITY_KEYWORDS, nlp_text)
        IN  /\ mental => category = "MENTAL_HEALTH"
            /\ ~mental /\ pension => category = "PENSION"
            /\ ~mental /\ ~pension /\ facility => category = "FACILITY"
            /\ ~mental /\ ~pension /\ ~facility => category = "OTHER"

\* one mental-health keyword wins over two pension keywords and a facility one
C10_Witness ==
    /\ Analyzed
    /\ nlp_text = <<"su", "geup", " ", "bok", "ji", " ", "do", "ro", " ",
                    "sang", "dam">>
    /\ nlp_result[1].category = "MENTAL_HEALTH"

-----------------------------------------------------------------------------
(* The summary on its own: analyze_text applied to texts around the two    *)
(* lengths summarize tests                                                 *)

\* n copies of a character
Repeat(c, n) == [i \in 1..n |-> c]

\* the lengths of the runs of letters: short, around the limit under which a
\* text is its own summary, and around the length a summary is cut at
RunLengths ==
    (0..MaxPad)
    \cup ((SummaryLimit - MaxPad)..(SummaryLimit + MaxPad))
    \cup ((SummaryCut - MaxPad)..(SummaryCut + MaxPad))

\* blanks, a run of letters, blanks, letters, blanks
SummarizeInputs ==
    {Repeat(" ", l) \o Repeat("ga", n) \o Repeat(" ", g) \o Repeat("na", m)
         \o Repeat(" ", t) :
        l \in 0..MaxPad, n \in RunLengths, g \in 0..MaxPad, m \in 0..MaxPad,
        t \in 0..MaxPad}

InitSummarize ==
    /\ sessions = <<>>
    /\ complaints = <<>>
    /\ logs = <<>>
    /\ pc = [w \in Workers |-> "idle"]
    /\ req = [w \in Workers |-> Idle]
    /\ reply = NoReply
    /\ nlp_text \in SummarizeInputs
    /\ nlp_result = None
    /\ nlp_pc = "input"

SpecSummarize == InitSummarize /\ [][NextNlp]_vars

-----------------------------------------------------------------------------
(* Properties of the summary *)

\* the positions of the text that hold no blank
Inked(text) == {i \in 1..Len(text) : text[i] # " "}

Lowest(S) == CHOOSE i \in S : \A j \in S : i <= j
Highest(S) == CHOOSE i \in S : \A j \in S : j <= i

\* the text without its leading and trailing blanks
Trimmed(text) ==
    IF Inked(text) = {} THEN <<>>
    ELSE SubSeq(text, Lowest(Inked(text)), Highest(Inked(text)))

EndsWithEllipsis(summary) == summary # <<>> /\ summary[Len(summary)] = "..."

\* C11 as stated: the summary of a text longer than 50 characters, blanks at
\* its ends counted, ends with the ellipsis marker after at most 120
\* characters; the summary of a text of at most 50 characters is the trimmed
\* text.
C11_SummarizeAsStated ==
    Analyzed =>
        LET summary == nlp_result[1].summary_text IN
        /\ Len(nlp_text) > SummaryLimit =>
               /\ EndsWithEllipsis(summary)
               /\ Len(summary) - 1 <= SummaryCut
        /\ Len(nlp_text) <= SummaryLimit => summary = Trimmed(nlp_text)

\* C11: the summary of a text whose trimmed length exceeds 50 characters is
\* the first 120 characters of the trimmed text, less the blanks at their end,
\* followed by the ellipsis marker; the summary of a text whose trimmed length
\* is at most 50 characters is the trimmed text.
C11_Summarize ==
    Analyzed =>
        LET summary == nlp_result[1].summary_text
            trimmed == Trimmed(nlp_text)
            kept == SubSeq(summary, 1, Len(summary) - 1)
        IN  /\ Len(trimmed) > SummaryLimit =>
                   /\ EndsWithEllipsis(summary)
                   /\ Len(kept) <= SummaryCut
                   /\ kept # <<>> /\ kept[Len(kept)] # " "
                   /\ IsPrefix(kept, trimmed)
                   /\ \A i \in (Len(kept) + 1)..Len(trimmed) :
                          i <= SummaryCut => trimmed[i] = " "
            /\ Len(trimmed) <= SummaryLimit => summary = trimmed

\* a text with blanks at both ends whose 120th trimmed character is a blank:
\* the summary is cut there and loses the blank
C11_Witness ==
    /\ Analyzed
    /\ Len(Trimmed(nlp_text)) > SummaryCut
    /\ nlp_text[1] = " " /\ nlp_text[Len(nlp_text)] = " "
    /\ Trimmed(nlp_text)[SummaryCut] = " "
    /\ EndsWithEllipsis(nlp_result[1].summary_text)
    /\ Len(nlp_result[1].summary_text) - 1 < SummaryCut

-----------------------------------------------------------------------------
(* Properties of the pipeline *)

\* C12: a step of stt, analyze or confirm leaves every session row and the
\* complaint store as they are; it leaves the log as it is or appends one
\* entry to it, of the session_uuid in the path and of its own stage, and it
\* appends that entry whenever it answers success.
C12_StageStep ==
    reply'.op \in {"stt", "analyze", "confirm"} =>
        /\ sessions' = sessions
        /\ complaints' = complaints
        /\ IsPrefix(logs, logs')
        /\ Len(logs') <= Len(logs) + 1
        /\ Len(logs') = Len(logs) + 1 =>
               /\ logs'[Len(logs')].session_uuid = reply'.request.session_uuid
               /\ logs'[Len(logs')].step = StepTag(reply'.op)
        /\ LoggedAnswer(reply') => Len(logs') = Len(logs) + 1

C12_StagesOnlyAppendLogs == [][C12_StageStep]_vars

\* a confirm answered for a session that is completed and has its complaint
C12_Witness ==
    /\ reply.op = "confirm"
    /\ reply.request.is_confirmed
    /\ reply.request.session_uuid \in DOMAIN sessions
    /\ sessions[reply.request.session_uuid].status = "COMPLETED"
    /\ ComplaintsOf(reply.request.session_uuid) # {}
    /\ logs # <<>>
    /\ logs[Len(logs)].step = "CONFIRM"
    /\ logs[Len(logs)].session_uuid = reply.request.session_uuid

\* the log entries of a session with a step tag
StageEntries(session_uuid, step) ==
    {i \in LogsOf(session_uuid) : logs[i].step = step}

\* C14: every Complaint of a session has, in the log of that session, a
\* SESSION entry, an ANALYZE entry and a CONFIRM entry, and the latest CONFIRM
\* entry of the session says is_confirmed=true.
C14_PipelineOrderEnforced ==
    \A i \in 1..Len(complaints) :
        LET u == complaints[i].session_uuid IN
        u \in DOMAIN sessions =>
            /\ StageEntries(u, "SESSION") # {}
            /\ StageEntries(u, "ANALYZE") # {}
            /\ StageEntries(u, "CONFIRM") # {}
            /\ logs[Highest(StageEntries(u, "CONFIRM"))].payload
                   = Some(json_dumps([is_confirmed |-> TRUE]))

\* C15: a session whose status is COMPLETED has at least one Complaint with
\* its session_uuid, in every state: between the transactions of finalize,
\* with other requests in between, and after a handler has died.
C15_CompletedHasComplaint ==
    \A u \in DOMAIN sessions :
        sessions[u].status = "COMPLETED" => ComplaintsOf(u) # {}

\* between the second and the third transaction of a finalize: the session is
\* COMPLETED and the DB_SAVE entry is not written, while the other request has
\* stored its complaint of the same session and not yet marked it
C15_Witness ==
    \E w, v \in Workers :
        /\ pc[w] = "finalize_log"
        /\ pc[v] = "finalize_update"
        /\ req[v].session_uuid = req[w].session_uuid
        /\ req[w].session_uuid \in DOMAIN sessions
        /\ sessions[req[w].session_uuid].status = "COMPLETED"
        /\ StageEntries(req[w].session_uuid, "DB_SAVE") = {}
        /\ Cardinality(ComplaintsOf(req[w].session_uuid)) = 2

-----------------------------------------------------------------------------
(* Properties of the transcription *)

\* the stt request the last step answered, with the upload it read
Transcribed == reply.op = "stt" /\ "upload" \in DOMAIN reply.request

\* the provider is not reached, or fails, or returns nothing to show
Unavailable(upload) ==
    \/ ~upload.OpenAI
    \/ upload.api_key = None \/ upload.api_key = Some(<<>>)
    \/ upload.provider.raises
    \/ upload.provider.text = None
    \/ Trimmed(upload.provider.text[1]) = <<>>

\* C13: transcription always returns a text to the stt handler, which answers
\* success with it and logs it.  When the library is absent, the key is not
\* set, the provider raises or returns an empty or missing text, the text is
\* the placeholder of the file name and of the digest of the bytes, non-empty
\* and the same in each of these cases; otherwise it is the provider's text.
C13_TranscribeNeverRaises ==
    Transcribed =>
        LET upload == reply.request.upload
            body == reply.response.body
        IN  /\ reply.response.status_code = 200
            /\ body # None /\ body[1].success /\ body[1].data # None
            /\ LET raw_text == body[1].data[1].raw_text IN
                /\ raw_text # <<>>
                /\ logs # <<>>
                /\ logs[Len(logs)].step = "STT"
                /\ logs[Len(logs)].payload # None
                /\ logs[Len(logs)].payload[1].json.raw_text = raw_text
                /\ Unavailable(upload) =>
                       /\ Len(raw_text) = 5
                       /\ raw_text[2] = upload.filename
                       /\ raw_text[4] = (IF upload.audio_bytes = <<>>
                                          THEN "e3b0c442" ELSE "ca978112")
                       /\ \A other \in SttEnvironments :
                              /\ Unavailable(other)
                              /\ other.audio_bytes = upload.audio_bytes
                              /\ other.filename = upload.filename
                              => transcribe_audio(other.audio_bytes,
                                     other.filename, other.api_key,
                                     other.OpenAI, other.provider) = raw_text
                /\ ~Unavailable(upload) =>
                       raw_text = Trimmed(upload.provider.text[1])

\* the provider was called and raised: the placeholder was answered and logged
C13_Witness ==
    /\ Transcribed
    /\ reply.request.upload.OpenAI
    /\ reply.request.upload.api_key = Some(<<"key">>)
    /\ reply.request.upload.provider.raises
    /\ reply.response.status_code = 200
    /\ reply.response.body[1].data[1].raw_text =
           <<"stt:open", "b.wav", "stt:sep", "ca978112", "stt:close">>
    /\ Len(logs) = 2

====
